---------------------------- MODULE Spec2Model ----------------------------
(***************************************************************************)
(* Model of the managed-node-group log collection of aws-k8s-tester        *)
(* (eks/mng/logs.go): FetchLogs / fetchLogs, the per-instance goroutines,  *)
(* the shared rate limiter, the result channel and the merge of the        *)
(* results into StatusManagedNodeGroups.Nodes[..].Logs.                    *)
(*                                                                         *)
(* One invocation of FetchLogs is followed.  What earlier invocations left *)
(* in Nodes[..].Logs is part of the initial state.                         *)
(***************************************************************************)
EXTENDS Integers, Sequences, FiniteSets, TLC

(***************************************************************************)
(* Bounds of the model.                                                    *)
(***************************************************************************)
\* number of limiter time units that are counted (one unit = 1/qps second)
MaxTime == 2

(***************************************************************************)
(* Program constants.                                                      *)
(***************************************************************************)
\* FetchLogs: ts.fetchLogs(150, 10, logCmds): the burst of the limiter
burst == 10
\* fetchLogs: make(chan instanceLogs, 10)
ChanCap == 10

\* logCmds: command -> file name
logCmds ==
    (<<"journalctl", "-k">> :> <<"kernel.out.log">>)
    @@ (<<"journalctl">> :> <<"journal.out.log">>)
    @@ (<<"systemctl", "list-units">> :> <<"list-units-systemctl.out.log">>)

listCmd == <<"systemctl", "list-units">>
eniCmd == <<"curl", "enis">>
findCmd == <<"find", "var", "log">>

(***************************************************************************)
(* Values.                                                                 *)
(***************************************************************************)
\* the nil error
Nil == "nil"
\* a racy read of the two-word string variable `name` while the range loop
\* stores the next key may observe a pointer/length pair that was never
\* written: a string that is no key of the node group map
Torn == "torn"

AllGroups == {"g1", "g2"}
AllInstIDs == {"i1", "i2"}

\* StatusManagedNodeGroups.Nodes (name -> Instances keys) of the fleets followed
OneInstance == ("g1" :> {"i1"})
TwoInstances == ("g1" :> {"i1", "i2"})
TwoGroups == ("g1" :> {"i1"}) @@ ("g2" :> {"i2"})
NoInstance == ("g1" :> {})

\* a group of more instances than the result channel has room for, in the order
\* in which instances that cannot be told apart are followed
ManyOrder == <<"m01", "m02", "m03", "m04", "m05", "m06", "m07", "m08", "m09", "m10", "m11">>
Many == ("g1" :> {ManyOrder[k] : k \in 1..Len(ManyOrder)})

\* outputs of `systemctl list-units` the remote hosts return: lines of fields
UnitListings ==
    { << >>,
      << <<"kubelet.service", "loaded", "active", "running", "Kubelet">>,
         <<"rpc.service", "loaded", "inactive", "dead", "RPC">>,
         <<"foo.service", "not-found", "active", "dead", "foo">>,
         <<"short.service", "loaded", "active", "running">> >>,
      << <<"sshd.service", "loaded", "active", "running", "OpenSSH", "server">>,
         << >>,
         <<"bar.service", "not-found", "inactive", "dead", "bar">>,
         <<"kubelet.service", "loaded", "active", "running", "Kubelet">> >> }

\* outputs of `find /var/log ! -type d`: lines, each a path of components
FindListings ==
    { << >>,
      << <<"var", "log", "messages">> >>,
      << <<"var", "log", "a", "messages">>, <<"var", "log", "b", "messages">> >>,
      << <<"var", "log", "v1-enis">> >> }

\* a goroutine: <<group, instance ID>>, the group being the key of the outer range
\* when the goroutine was launched
Workers(nodes) ==
    {w \in (DOMAIN nodes) \X UNION {nodes[g] : g \in DOMAIN nodes} : w[2] \in nodes[w[1]]}
GroupOf(w) == w[1]
InstOf(w) == w[2]

VARIABLES
    env,        \* what the environment of this behaviour may do (see Scenarios)
    prior,      \* Nodes[..].Logs when FetchLogs was invoked
    Nodes,      \* StatusManagedNodeGroups.Nodes: group name -> instance IDs
    Logs,       \* Nodes[name].Logs: group name -> (instance ID -> paths)
    synced,     \* Nodes[..].Logs as last written by EKSConfig.Sync()
    stopc,      \* ts.cfg.Stopc is closed
    tokens,     \* tokens in the bucket of rateLimiter
    now,        \* time units elapsed, counted up to MaxTime
    logsMu,     \* ts.logsMu: "free", "held" (Lock) or "rheld" (RLock)
    orch,       \* the state of FetchLogs / fetchLogs
    wk,         \* per goroutine: its position and locals
    other,      \* a second, concurrent caller of DownloadClusterLogs
    sh,         \* a call of shorten: its argument and its result
    s3          \* a call of an S3 bucket function: its configuration and its state

vars == <<env, prior, Nodes, Logs, synced, stopc, tokens, now, logsMu, orch, wk, other, sh,
          s3>>

\* the goroutines of the followed invocation
WorkerIds == DOMAIN wk

(***************************************************************************)
(* Helpers.                                                                *)
(***************************************************************************)
Min(a, b) == IF a < b THEN a ELSE b

Last(s) == s[Len(s)]

RECURSIVE SumOver(_, _)
SumOver(S, f) ==
    IF S = {} THEN 0
    ELSE LET x == CHOOSE y \in S : TRUE IN f[x] + SumOver(S \ {x}, f)

\* a path without the prefix of the instance
PathNoPrefix(dir, instID, fileName) == <<dir, "", fileName>>

\* filepath.Join(logsDir, shorten(pfx+fileName)): the run directory, the instance
\* prefix, the file name.  pfx is instID + "-" + dns + "-"; the instances followed
\* have no public DNS name, so dns is empty for all of them and the instance ID is
\* what tells their prefixes apart.  The names followed here are shorter than 240
\* characters, which shorten returns as they are (see shorten below).
Path(dir, instID, fileName) == <<dir, instID, fileName>>

\* filepath.Base of a path given by its components
Base(line) == Last(line)

\* logsDir of the followed invocation (ioutil.TempDir), and of an earlier one
RunDir == "run"
EarlierDir == "earlier"

\* the file list an earlier, successful collection of an instance left
EarlierPaths(i) ==
    << Path(EarlierDir, i, <<"kernel.out.log">>),
       Path(EarlierDir, i, <<"journal.out.log">>),
       Path(EarlierDir, i, <<"list-units-systemctl.out.log">>),
       Path(EarlierDir, i, <<"v1-enis">>) >>

\* Nodes[..].Logs before the followed invocation: nothing collected, or every instance
NothingCollected(nodes) == [g \in DOMAIN nodes |-> << >>]
AllCollected(nodes) == [g \in DOMAIN nodes |-> [i \in nodes[g] |-> EarlierPaths(i)]]

\* The environments followed.  shuffle: whether `range` over a map may visit the keys
\* in any order, or visits them in one order; faults: the failures that may occur;
\* units, finds: the outputs the remote hosts may return to the discovery commands.
AllFaults ==
    {"not enabled", "mkdir error", "tempdir error", "ssh.New error", "connect error",
     "run error", "create error", "write error", "sync error"}

Rich == [shuffle |-> TRUE, faults |-> AllFaults,
         units |-> UnitListings, finds |-> FindListings, down |-> FALSE, canon |-> FALSE]
Lean == [shuffle |-> FALSE, faults |-> AllFaults,
         units |-> {<< >>}, finds |-> {<< >>}, down |-> FALSE, canon |-> FALSE]

\* no host accepts the session (down); the instances cannot be told apart, and of
\* the goroutines that are in the same state the first in ManyOrder is followed
\* (canon)
Unreachable == [shuffle |-> FALSE, faults |-> {"connect error"},
                units |-> {<< >>}, finds |-> {<< >>}, down |-> TRUE, canon |-> TRUE]

Scenarios ==
    { [nodes |-> OneInstance, logs |-> NothingCollected(OneInstance), env |-> Rich],
      [nodes |-> OneInstance, logs |-> AllCollected(OneInstance), env |-> Rich],
      [nodes |-> NoInstance, logs |-> NothingCollected(NoInstance), env |-> Rich],
      [nodes |-> TwoInstances, logs |-> NothingCollected(TwoInstances), env |-> Lean],
      [nodes |-> TwoGroups, logs |-> NothingCollected(TwoGroups), env |-> Lean] }

NoRec == [mngName |-> "", instanceID |-> "", paths |-> << >>, err |-> Nil]

\* instanceLogs{mngName: ..., instanceID: ..., err: ...}
ErrRec(mngName, instID, err) ==
    [mngName |-> mngName, instanceID |-> instID, paths |-> << >>, err |-> err]

InitOrch ==
    [pc |-> "idle", name |-> "", nextName |-> "", groups |-> {}, insts |-> {},
     waits |-> 0, i |-> 0, rch |-> << >>, ret |-> Nil, merged |-> {}, nsync |-> 0,
     sres |-> Nil]

\* a goroutine: pc and stage are its position; m, todo and cmd the map ranged over,
\* its keys not yet visited and the key of this iteration; data and rec the record
\* being built and the record to send; listed the output of the list-units command
\* it received.  What it has done so far: probes, waited and
\* taken count its calls of Allow, its calls of Wait and the tokens it was granted;
\* ops the remote operations it started (the session, then every command), cmds the
\* commands among them; late whether it started one of them after Stopc was closed;
\* files the files it created; nsent the records it sent
InitWk ==
    [pc |-> "none", stage |-> "", m |-> << >>, todo |-> {}, cmd |-> << >>,
     data |-> NoRec, rec |-> NoRec, listed |-> << >>,
     probes |-> 0, waited |-> 0, taken |-> 0, ops |-> 0, cmds |-> 0, late |-> FALSE,
     files |-> {}, nsent |-> 0, failed |-> FALSE]

\* no second caller, no call of shorten
NoOther ==
    [pc |-> "none", seen |-> << >>, left |-> {}, cur |-> << >>, k |-> 0,
     copied |-> << >>, config |-> FALSE, ret |-> Nil]
NoShorten == [pc |-> "none", name |-> << >>, out |-> << >>]

\* no call of an S3 bucket function.  fn: the function called; create, keep:
\* S3BucketCreate and S3BucketCreateKeep; lifecycle: whether a lifecycle prefix and
\* expiration are given; i: the loop variable of CreateBucket; retry, err: what the
\* last createBucket returned; calls: the S3 API calls made so far; api: the error
\* of the last of them; emptied: what EmptyBucket
\* returned to deleteS3; ret: what the function returned
NoS3 ==
    [pc |-> "none", fn |-> "", create |-> FALSE, keep |-> FALSE, lifecycle |-> FALSE,
     i |-> 0, retry |-> FALSE, err |-> Nil, calls |-> << >>, api |-> Nil,
     emptied |-> "", ret |-> Nil]

\* the state at the call of FetchLogs in one of the scenarios
InitIn(scenarios) ==
    /\ \E s \in scenarios :
          /\ env = s.env
          /\ Nodes = s.nodes
          /\ Logs = s.logs
          /\ prior = s.logs
    /\ synced = Logs
    /\ stopc = FALSE
    /\ tokens = burst
    /\ now = 0
    /\ logsMu = "free"
    /\ orch = InitOrch
    /\ wk = [w \in Workers(Nodes) |-> InitWk]

Init ==
    /\ InitIn(Scenarios)
    /\ other = NoOther
    /\ sh = NoShorten
    /\ s3 = NoS3

(***************************************************************************)
(* The rate limiter (golang.org/x/time/rate): a token bucket of `burst`    *)
(* tokens that gains qps tokens per second; one time unit is 1/qps second. *)
(***************************************************************************)
\* rateLimiter.Allow(): whether a token is available now (it is then taken)
Allow(t) == t > 0

\* rateLimiter.Wait(ctx): returns once a token is available (it is then taken)
WaitReady(t) == t > 0

\* one time unit passes: the bucket gains a token, up to burst
Refill(t) == Min(burst, t + 1)

\* a time unit passes; time is followed only while the bucket is empty
Tick ==
    /\ tokens = 0
    /\ tokens' = Refill(tokens)
    /\ now' = Min(MaxTime, now + 1)
    /\ UNCHANGED <<s3, sh, other, env, prior, Nodes, Logs, synced, stopc, logsMu, orch, wk>>

\* close(ts.cfg.Stopc)
Stop ==
    /\ ~stopc
    /\ stopc' = TRUE
    /\ UNCHANGED <<s3, sh, other, env, prior, Nodes, Logs, synced, tokens, now, logsMu, orch, wk>>

(***************************************************************************)
(* FetchLogs and the launching loop of fetchLogs.                          *)
(***************************************************************************)
\* the outcomes of an operation in this environment, among those it can have
Outcomes(S) == {"ok"} \cup (S \cap env.faults)

\* the error value of an outcome
ErrOf(out) == IF out = "ok" THEN Nil ELSE out

\* AddOnManagedNodeGroups.Enable is false, os.MkdirAll fails, ioutil.TempDir fails
EntryOutcomes == Outcomes({"not enabled", "mkdir error"})
TempDirOutcomes == Outcomes({"tempdir error"})
SetupErrors == {"not enabled", "mkdir error", "tempdir error"}

\* EKSConfig.Sync(): its results, and what durable storage holds after it
SyncOutcomes == Outcomes({"sync error"})
Flushed(s, logs, res) == IF res = "ok" THEN logs ELSE s

\* after the instances of a group are launched: the next group, or the drain loop
AfterGroup(groups) == IF groups = {} THEN "drain" ELSE "range"

\* a setup that goes on after an error
IgnoreError(out, next) == next

\* if err != nil { return err }: where the run goes after a setup step
AfterSetup(out, next) == IF out = "ok" THEN next ELSE "returned"

\* FetchLogs up to ts.logsMu.Lock()
FetchLogs ==
    /\ orch.pc = "idle"
    /\ \E out \in EntryOutcomes :
          orch' = [orch EXCEPT !.pc = AfterSetup(out, "lock"), !.ret = ErrOf(out)]
    /\ UNCHANGED <<s3, sh, other, env, prior, Nodes, Logs, synced, stopc, tokens, now, logsMu, wk>>

\* a lock that is granted whoever holds it
AlwaysLock(mu) == TRUE

\* ts.logsMu.Lock() grants the exclusive lock
CanLock(mu) == mu = "free"

\* ts.logsMu.Lock(); defer ts.logsMu.Unlock(); fetchLogs up to the first iteration
\* of the range over Nodes
Lock ==
    /\ orch.pc = "lock"
    /\ CanLock(logsMu)
    /\ \E out \in TempDirOutcomes :
          /\ orch' = [orch EXCEPT !.pc = AfterSetup(out, AfterGroup(DOMAIN Nodes)),
                                  !.ret = IF out = "ok" THEN @ ELSE out,
                                  !.groups = IF out = "ok" THEN DOMAIN Nodes ELSE @]
          /\ logsMu' = IF orch'.pc = "returned" THEN "free" ELSE "held"
    /\ UNCHANGED <<s3, sh, other, env, prior, Nodes, Logs, synced, stopc, tokens, now, wk>>

\* for name, nodeGroup := range Nodes: the store of the next key into `name` begins
RangeGroup ==
    /\ orch.pc = "range"
    /\ \E g \in orch.groups :
          orch' = [orch EXCEPT !.pc = "assign",
                               !.name = IF @ = "" THEN "" ELSE Torn,
                               !.nextName = g]
    /\ UNCHANGED <<s3, sh, other, env, prior, Nodes, Logs, synced, stopc, tokens, now, logsMu, wk>>

\* the store into `name` is complete; waits += len(nodeGroup.Instances)
AssignName ==
    /\ orch.pc = "assign"
    /\ LET g == orch.nextName
           rest == orch.groups \ {g}
       IN orch' = [orch EXCEPT !.name = g,
                               !.groups = rest,
                               !.insts = Nodes[g],
                               !.waits = @ + Cardinality(Nodes[g]),
                               !.pc = IF Nodes[g] = {} THEN AfterGroup(rest)
                                      ELSE "inner"]
    /\ UNCHANGED <<s3, sh, other, env, prior, Nodes, Logs, synced, stopc, tokens, now, logsMu, wk>>

\* for instID, iv := range nodeGroup.Instances { go func(instID, logsDir, pfx, iv) }
Launch ==
    /\ orch.pc = "inner"
    /\ \E i \in orch.insts :
          LET rest == orch.insts \ {i}
          IN /\ orch' = [orch EXCEPT !.insts = rest,
                                     !.pc = IF rest = {} THEN AfterGroup(orch.groups)
                                            ELSE "inner"]
             /\ wk' = [wk EXCEPT ![<<orch.name, i>>].pc = "start"]
    /\ UNCHANGED <<s3, sh, other, env, prior, Nodes, Logs, synced, stopc, tokens, now, logsMu>>

(***************************************************************************)
(* The drain loop of fetchLogs.                                            *)
(***************************************************************************)
\* mv, ok := Nodes[data.mngName]; !ok
UnknownGroup(nodes, data) == data.mngName \notin DOMAIN nodes

\* a merge that does not look for an entry of the instance
NeverRedundant(logs, data) == FALSE

\* _, ok = mv.Logs[data.instanceID]; ok
Redundant(logs, data) == data.instanceID \in DOMAIN logs[data.mngName]

\* a merge that drops the last path of the record
MergePartial(logs, data) ==
    [logs EXCEPT ![data.mngName] =
        (data.instanceID :> SubSeq(data.paths, 1, Len(data.paths) - 1)) @@ @]

\* mv.Logs[data.instanceID] = data.paths; Nodes[data.mngName] = mv
Merge(logs, data) ==
    [logs EXCEPT ![data.mngName] = (data.instanceID :> data.paths) @@ @]

\* a drain loop that returns the error of an instance
FailRun(o) == [o EXCEPT !.rch = Tail(@), !.pc = "returned", !.ret = "instance error"]

\* a drain loop that does not count the record of a failed instance
SkipUncounted(o) == [o EXCEPT !.rch = Tail(@)]

\* if data.err != nil { ...; continue }
Skip(o) == [o EXCEPT !.rch = Tail(@), !.i = @ + 1]

\* a drain loop that logs the violation and goes on with the next record
LogAndContinue(o, err) == [o EXCEPT !.rch = Tail(@), !.i = @ + 1]

\* return fmt.Errorf(...)
Reject(o, err) == [o EXCEPT !.rch = Tail(@), !.pc = "returned", !.ret = err]

\* a merge that is not followed by a Sync
NoSyncMerged(s, logs, res) == s

\* ts.cfg.EKSConfig.Sync() after the merge; its result is discarded
SyncMerged(s, logs, res) == Flushed(s, logs, res)

\* one iteration of the drain loop that receives from rch
Drain ==
    /\ orch.pc = "drain"
    /\ orch.i < orch.waits
    /\ orch.rch # << >>
    /\ LET data == Head(orch.rch)
       IN CASE data.err # Nil ->
                 /\ orch' = Skip(orch)
                 /\ logsMu' = IF orch'.pc = "returned" THEN "free" ELSE logsMu
                 /\ UNCHANGED <<Logs, synced>>
            [] data.err = Nil /\ UnknownGroup(Nodes, data) ->
                 /\ orch' = Reject(orch, "unknown group")
                 /\ logsMu' = IF orch'.pc = "returned" THEN "free" ELSE logsMu
                 /\ UNCHANGED <<Logs, synced>>
            [] data.err = Nil /\ ~UnknownGroup(Nodes, data) /\ Redundant(Logs, data) ->
                 /\ orch' = Reject(orch, "redundant")
                 /\ logsMu' = IF orch'.pc = "returned" THEN "free" ELSE logsMu
                 /\ UNCHANGED <<Logs, synced>>
            [] OTHER ->
                 \E res \in SyncOutcomes :
                    /\ Logs' = Merge(Logs, data)
                    /\ synced' = SyncMerged(synced, Logs', res)
                    /\ orch' = [orch EXCEPT !.rch = Tail(@), !.i = @ + 1,
                                            !.merged = @ \cup {data},
                                            !.nsync = @ + 1, !.sres = ErrOf(res)]
                    /\ UNCHANGED logsMu
    /\ UNCHANGED <<s3, sh, other, env, prior, Nodes, stopc, tokens, now, wk>>

\* a Stopc case that returns an error of its own and does not call Sync
StopIsError ==
    /\ orch.pc = "drain"
    /\ orch.i < orch.waits
    /\ stopc
    /\ orch' = [orch EXCEPT !.pc = "returned", !.ret = "stopped"]
    /\ logsMu' = "free"
    /\ UNCHANGED <<s3, sh, other, env, prior, Nodes, Logs, synced, stopc, tokens, now, wk>>

\* case <-ts.cfg.Stopc: return ts.cfg.EKSConfig.Sync()
ObserveStop ==
    /\ orch.pc = "drain"
    /\ orch.i < orch.waits
    /\ stopc
    /\ \E res \in SyncOutcomes :
          /\ synced' = Flushed(synced, Logs, res)
          /\ orch' = [orch EXCEPT !.pc = "returned", !.ret = ErrOf(res),
                                  !.nsync = @ + 1, !.sres = ErrOf(res)]
    /\ logsMu' = "free"
    /\ UNCHANGED <<s3, sh, other, env, prior, Nodes, Logs, stopc, tokens, now, wk>>

\* after the loop: return ts.cfg.EKSConfig.Sync()
Finish ==
    /\ orch.pc = "drain"
    /\ orch.i = orch.waits
    /\ \E res \in SyncOutcomes :
          /\ synced' = Flushed(synced, Logs, res)
          /\ orch' = [orch EXCEPT !.pc = "returned", !.ret = ErrOf(res),
                                  !.nsync = @ + 1, !.sres = ErrOf(res)]
    /\ logsMu' = "free"
    /\ UNCHANGED <<s3, sh, other, env, prior, Nodes, Logs, stopc, tokens, now, wk>>

(***************************************************************************)
(* The goroutine of one instance.                                          *)
(***************************************************************************)
SshOutcomes ==
    IF env.down THEN {"connect error"} ELSE Outcomes({"ssh.New error", "connect error"})
RunOutcomes == Outcomes({"run error", "create error", "write error"})
DiscoverOutcomes == Outcomes({"run error"})

\* a goroutine that does not look at Stopc
StartAnyway(w) ==
    /\ wk[w].pc = "start"
    /\ wk' = [wk EXCEPT ![w].pc = "gate", ![w].stage = "ssh"]
    /\ UNCHANGED <<s3, sh, other, env, prior, Nodes, Logs, synced, stopc, tokens, now, logsMu, orch>>

\* select { case <-ts.cfg.Stopc: return; default: }
WStart(w) ==
    /\ wk[w].pc = "start"
    /\ wk' = [wk EXCEPT ![w].pc = IF stopc THEN "exited" ELSE "gate",
                        ![w].stage = IF stopc THEN "" ELSE "ssh"]
    /\ UNCHANGED <<s3, sh, other, env, prior, Nodes, Logs, synced, stopc, tokens, now, logsMu, orch>>

\* a gate that never calls Wait
NeverWait(allowed) == FALSE

\* if !rateLimiter.Allow() { rateLimiter.Wait(ctx) }: whether Wait is called
MustWait(allowed) == ~allowed

\* a goroutine that runs its commands without asking the limiter
Ungated(w) ==
    /\ wk[w].pc = "gate"
    /\ wk' = [wk EXCEPT ![w].pc = "run"]
    /\ UNCHANGED <<s3, sh, other, env, prior, Nodes, Logs, synced, stopc, tokens, now, logsMu, orch>>

\* if !rateLimiter.Allow()
WAllow(w) ==
    /\ wk[w].pc = "gate"
    /\ LET allowed == Allow(tokens)
       IN /\ tokens' = IF allowed THEN tokens - 1 ELSE tokens
          /\ wk' = [wk EXCEPT ![w].pc = IF MustWait(allowed) THEN "wait" ELSE "run",
                              ![w].probes = @ + 1,
                              ![w].taken = IF allowed THEN @ + 1 ELSE @]
    /\ UNCHANGED <<s3, sh, other, env, prior, Nodes, Logs, synced, stopc, now, logsMu, orch>>

\* werr := rateLimiter.Wait(context.Background())
WWait(w) ==
    /\ wk[w].pc = "wait"
    /\ WaitReady(tokens)
    /\ tokens' = tokens - 1
    /\ wk' = [wk EXCEPT ![w].pc = "run", ![w].waited = @ + 1, ![w].taken = @ + 1]
    /\ UNCHANGED <<s3, sh, other, env, prior, Nodes, Logs, synced, stopc, now, logsMu, orch>>

\* the goroutine is about to send rec and return: its other locals are read no more
Sending(v, rec) ==
    [v EXCEPT !.pc = "send", !.rec = rec, !.stage = "", !.m = << >>, !.todo = {},
              !.cmd = << >>, !.data = NoRec]

\* a failure after which the goroutine does not return
KeepGoing(v, rec) == [v EXCEPT !.failed = TRUE, !.rec = rec]

\* rch <- instanceLogs{..., err: ...}; return
Fail(v, rec) == [Sending(v, rec) EXCEPT !.failed = TRUE]

\* a goroutine that goes from the static commands to the ENI probe
AfterLoopEarly(v) ==
    CASE v.stage \in {"static", "svc"} ->
            [v EXCEPT !.pc = "gate", !.stage = "eni", !.cmd = eniCmd]
      [] v.stage = "cat" -> Sending(v, v.data)

\* the one command that follows a range loop, or rch <- data after the last loop
AfterLoop(v) ==
    CASE v.stage = "static" -> [v EXCEPT !.pc = "gate", !.stage = "list", !.cmd = listCmd]
      [] v.stage = "svc" -> [v EXCEPT !.pc = "gate", !.stage = "eni", !.cmd = eniCmd]
      [] v.stage = "cat" -> Sending(v, v.data)

\* the next iteration of `for cmd, fileName := range m`: any key not yet visited
Iterate(v) ==
    IF v.todo = {} THEN {AfterLoop(v)}
    ELSE LET next == IF env.shuffle THEN v.todo ELSE {CHOOSE c \in v.todo : TRUE}
         IN {[v EXCEPT !.pc = "gate", !.cmd = c, !.todo = @ \ {c}] : c \in next}

\* for cmd, fileName := range m
RangeOver(v, stage, m) == Iterate([v EXCEPT !.stage = stage, !.m = m, !.todo = DOMAIN m])

\* ssh.New, sh.Connect, data := instanceLogs{mngName: name, instanceID: instID}
WSsh(w) ==
    /\ wk[w].pc = "run"
    /\ wk[w].stage = "ssh"
    /\ \E out \in SshOutcomes :
          LET v == [wk[w] EXCEPT !.ops = @ + 1, !.late = IF stopc THEN TRUE ELSE @]
          IN IF out # "ok"
             THEN wk' = [wk EXCEPT ![w] = Fail(v, ErrRec(orch.name, "", out))]
             ELSE \E nv \in RangeOver([v EXCEPT !.data = [mngName |-> orch.name,
                                                          instanceID |-> InstOf(w),
                                                          paths |-> << >>,
                                                          err |-> Nil]],
                                      "static", logCmds) :
                     wk' = [wk EXCEPT ![w] = nv]
    /\ UNCHANGED <<s3, sh, other, env, prior, Nodes, Logs, synced, stopc, tokens, now, logsMu, orch>>

\* the file name of the command of this iteration
FileNameOf(v) == IF v.stage = "eni" THEN <<"v1-enis">> ELSE v.m[v.cmd]

\* after the file of a command is written: the next iteration, or the find command
AfterWrite(v) ==
    IF v.stage = "eni"
    THEN {[v EXCEPT !.pc = "gate", !.stage = "find", !.cmd = findCmd]}
    ELSE Iterate(v)

\* sh.Run(cmd), os.Create(fpath), f.Write(out), data.paths = append(data.paths, fpath)
WRunCmd(w) ==
    /\ wk[w].pc = "run"
    /\ wk[w].stage \in {"static", "svc", "eni", "cat"}
    /\ \E out \in RunOutcomes :
          LET fpath == Path(RunDir, InstOf(w), FileNameOf(wk[w]))
              v == [wk[w] EXCEPT !.ops = @ + 1, !.cmds = @ + 1, !.late = IF stopc THEN TRUE ELSE @,
                                 !.files = IF out \in {"ok", "write error"}
                                           THEN @ \cup {fpath} ELSE @]
          IN IF out # "ok"
             THEN wk' = [wk EXCEPT ![w] = Fail(v, ErrRec(orch.name, InstOf(w), out))]
             ELSE \E nv \in AfterWrite([v EXCEPT !.data.paths = Append(@, fpath)]) :
                     wk' = [wk EXCEPT ![w] = nv]
    /\ UNCHANGED <<s3, sh, other, env, prior, Nodes, Logs, synced, stopc, tokens, now, logsMu, orch>>

\* a filter that lets inactive units through
SelectedLoose(fields) ==
    /\ Len(fields) >= 5
    /\ fields[2] # "not-found"

\* the lines of the list-units output that name a unit to fetch the journal of
SelectedLine(fields) ==
    /\ Len(fields) >= 5
    /\ fields[2] # "not-found"
    /\ fields[3] # "inactive"

\* svcCmdToFileName: "journalctl -u <svc>" -> "<svc>.out.log"
SvcCmdToFileName(out) ==
    LET svcs == {out[k][1] : k \in {j \in 1..Len(out) : SelectedLine(out[j])}}
    IN [c \in {<<"journalctl", "-u", svc>> : svc \in svcs} |-> <<c[3], ".out.log">>]

\* varLogCmdToFileName: "cat <line>" -> filepath.Base(line)
VarLogCmdToFileName(out) ==
    [c \in {<<"cat">> \o out[k] : k \in 1..Len(out)} |-> <<Base(c)>>]

\* the outputs the remote host may return for the discovery command of a stage
Listings(stage) == IF stage = "list" THEN env.units ELSE env.finds

\* the next range loop, over the map built from the output of a discovery command
Discovered(v, out) ==
    IF v.stage = "list" THEN RangeOver(v, "svc", SvcCmdToFileName(out))
    ELSE RangeOver(v, "cat", VarLogCmdToFileName(out))

\* sh.Run(listCmd) and sh.Run(findCmd), and the map built from the output
WDiscover(w) ==
    /\ wk[w].pc = "run"
    /\ wk[w].stage \in {"list", "find"}
    /\ \E res \in DiscoverOutcomes :
          LET v == [wk[w] EXCEPT !.ops = @ + 1, !.cmds = @ + 1, !.late = IF stopc THEN TRUE ELSE @]
          IN IF res # "ok"
             THEN wk' = [wk EXCEPT ![w] = Fail(v, ErrRec(orch.name, InstOf(w), res))]
             ELSE \E out \in Listings(v.stage) :
                     \E nv \in Discovered([v EXCEPT !.listed = IF v.stage = "list"
                                                               THEN out ELSE @], out) :
                        wk' = [wk EXCEPT ![w] = nv]
    /\ UNCHANGED <<s3, sh, other, env, prior, Nodes, Logs, synced, stopc, tokens, now, logsMu, orch>>

\* a send after which the goroutine does not return
SendAgain(v) == [v EXCEPT !.nsent = @ + 1]

\* after rch <- rec: return
AfterSend(v) == [v EXCEPT !.pc = "done", !.nsent = @ + 1]

\* rch <- rec, and the goroutine returns
WSend(w) ==
    /\ wk[w].pc = "send"
    /\ Len(orch.rch) < ChanCap
    /\ orch' = [orch EXCEPT !.rch = Append(@, wk[w].rec)]
    /\ wk' = [wk EXCEPT ![w] = AfterSend(@)]
    /\ UNCHANGED <<s3, sh, other, env, prior, Nodes, Logs, synced, stopc, tokens, now, logsMu>>

(***************************************************************************)
(* The specification.                                                      *)
(***************************************************************************)
Next ==
    \/ Tick
    \/ Stop
    \/ FetchLogs
    \/ Lock
    \/ RangeGroup
    \/ AssignName
    \/ Launch
    \/ Drain
    \/ ObserveStop
    \/ Finish
    \/ \E w \in WorkerIds :
          \/ WStart(w)
          \/ WAllow(w)
          \/ WWait(w)
          \/ WSsh(w)
          \/ WRunCmd(w)
          \/ WDiscover(w)
          \/ WSend(w)

Spec == Init /\ [][Next]_vars

(***************************************************************************)
(* shorten and randString, on names given as sequences of characters.      *)
(***************************************************************************)
\* if len(name) < 240
NameLimit == 240
\* name[:230]
KeptLen == 230
\* randString(5)
SuffixLen == 5

\* the characters of ll that the random suffix is drawn from here
RandChars == {"0", "z"}

\* const ll = "0123456789abcdefghijklmnopqrstuvwxyz"
ll ==
    {"0", "1", "2", "3", "4", "5", "6", "7", "8", "9", "a", "b", "c", "d", "e", "f",
     "g", "h", "i", "j", "k", "l", "m", "n", "o", "p", "q", "r", "s", "t", "u", "v",
     "w", "x", "y", "z"}

\* randString(n): the strings it may return
randString(n) == [1..n -> RandChars \cap ll]

\* filepath.Ext: the suffix that begins at the last dot of the last path element
\* (the scan from the end stops at the first dot and gives up at a separator)
Ext(name) ==
    LET dots == {k \in 1..Len(name) :
                    name[k] = "." /\ \A j \in k..Len(name) : name[j] # "/"}
    IN  IF dots = {} THEN << >>
        ELSE SubSeq(name, CHOOSE k \in dots : \A j \in dots : j <= k, Len(name))

\* a shorten that leaves a name of 240 characters as it is
shortenOver(name, rnd) ==
    IF Len(name) <= 240 THEN name
    ELSE SubSeq(name, 1, 230) \o rnd \o Ext(name)

\* shorten(lg, name), with the string that randString(5) returns
shorten(name, rnd) ==
    IF Len(name) < NameLimit THEN name
    ELSE SubSeq(name, 1, KeptLen) \o rnd \o Ext(name)

\* a name of n characters `a` followed by a tail
Stem(n) == [k \in 1..n |-> "a"]

\* the names shorten is called with: of 239, 240, 241 and more characters, without
\* an extension, with a short and a long one, with a dot before a path separator,
\* and one of 240 characters that has the form of a result already
ShortenNames ==
    { Stem(239), Stem(240), Stem(241), Stem(250),
      Stem(235) \o <<".", "l", "o", "g">>,
      Stem(236) \o <<".", "l", "o", "g">>,
      Stem(237) \o <<".", "l", "o", "g">>,
      Stem(236) \o <<".", "t", "a", "r", ".", "g", "z">>,
      Stem(234) \o <<".", "b", "a", "c", "k", "u", "p">>,
      Stem(233) \o <<".", "d", "/">> \o Stem(8),
      <<"a", ".">> \o Stem(240),
      Stem(230) \o <<"0", "0", "0", "0", "0", ".", "l", "o", "g", "s">> }

InitShorten ==
    /\ InitIn({[nodes |-> NoInstance, logs |-> NothingCollected(NoInstance), env |-> Lean]})
    /\ other = NoOther
    /\ s3 = NoS3
    /\ sh \in {[pc |-> "call", name |-> n, out |-> << >>] : n \in ShortenNames}

\* fpath := filepath.Join(logsDir, shorten(ts.cfg.Logger, pfx+fileName))
ShortenName ==
    /\ sh.pc = "call"
    /\ \E rnd \in randString(SuffixLen) :
          sh' = [sh EXCEPT !.pc = "ret", !.out = shorten(sh.name, rnd)]
    /\ UNCHANGED <<s3, other, env, prior, Nodes, Logs, synced, stopc, tokens, now,
                   logsMu, orch, wk>>

NextShorten == ShortenName

SpecShorten == InitShorten /\ [][NextShorten]_vars

(***************************************************************************)
(* A second caller, of DownloadClusterLogs, next to the run above: it      *)
(* takes the same lock for its own FetchLogs and the read lock for its     *)
(* copy of the files that Fleet Status lists.  Its run is followed only    *)
(* as far as the lock and Fleet Status are concerned.                      *)
(***************************************************************************)
\* ts.logsMu.RLock() grants the read lock (to the one reader followed here)
CanRLock(mu) == mu = "free"

\* the positions of the run above between ts.logsMu.Lock() and its return
InRun(pc) == pc \in {"range", "assign", "inner", "drain"}

\* the file list that the run of the second caller records for an instance
OtherPaths(i) == <<Path(EarlierDir, i, <<"kubelet.log">>)>>

\* DownloadClusterLogs: err := ts.FetchLogs(), up to ts.logsMu.Lock()
OtherCall ==
    /\ other.pc = "idle"
    /\ other' = [other EXCEPT !.pc = "lock"]
    /\ UNCHANGED <<s3, sh, env, prior, Nodes, Logs, synced, stopc, tokens, now, logsMu,
                   orch, wk>>

\* ts.logsMu.Lock() of the second caller
OtherLock ==
    /\ other.pc = "lock"
    /\ CanLock(logsMu)
    /\ logsMu' = "held"
    /\ other' = [other EXCEPT !.pc = "run"]
    /\ UNCHANGED <<s3, sh, env, prior, Nodes, Logs, synced, stopc, tokens, now, orch, wk>>

\* the run of the second caller merges the record of an instance without entry
\* and calls Sync
OtherMerge ==
    /\ other.pc = "run"
    /\ \E g \in DOMAIN Nodes : \E i \in Nodes[g] :
          LET data == [mngName |-> g, instanceID |-> i, paths |-> OtherPaths(i),
                       err |-> Nil]
          IN /\ ~Redundant(Logs, data)
             /\ Logs' = Merge(Logs, data)
             /\ synced' = Logs'
    /\ UNCHANGED <<s3, sh, other, env, prior, Nodes, stopc, tokens, now, logsMu, orch, wk>>

\* the FetchLogs of the second caller returns (defer ts.logsMu.Unlock()), nil or
\* an error; if err != nil { return err }
OtherReturn ==
    /\ other.pc = "run"
    /\ logsMu' = "free"
    /\ \E out \in {"ok", "error"} :
          other' = [other EXCEPT !.pc = AfterSetup(out, "rlock")]
    /\ UNCHANGED <<s3, sh, env, prior, Nodes, Logs, synced, stopc, tokens, now, orch, wk>>

\* ts.logsMu.RLock(); defer ts.logsMu.RUnlock()
OtherRLock ==
    /\ other.pc = "rlock"
    /\ CanRLock(logsMu)
    /\ logsMu' = "rheld"
    /\ other' = [other EXCEPT !.pc = "copy", !.seen = Logs]
    /\ UNCHANGED <<s3, sh, env, prior, Nodes, Logs, synced, stopc, tokens, now, orch, wk>>

\* the range over Nodes that copies every listed file
OtherCopy ==
    /\ other.pc = "copy"
    /\ other' = [other EXCEPT !.pc = "config", !.seen = Logs]
    /\ UNCHANGED <<s3, sh, env, prior, Nodes, Logs, synced, stopc, tokens, now, logsMu,
                   orch, wk>>

\* return fileutil.Copy(ts.cfg.EKSConfig.ConfigPath, ...), and the read lock is
\* released
OtherCopyConfig ==
    /\ other.pc = "config"
    /\ logsMu' = "free"
    /\ other' = [other EXCEPT !.pc = "returned"]
    /\ UNCHANGED <<s3, sh, env, prior, Nodes, Logs, synced, stopc, tokens, now, orch, wk>>

InitLock ==
    /\ InitIn({[nodes |-> OneInstance, logs |-> NothingCollected(OneInstance),
                env |-> Lean]})
    /\ other = [NoOther EXCEPT !.pc = "idle"]
    /\ sh = NoShorten
    /\ s3 = NoS3

\* the run above and the second caller; with one instance the bucket of the
\* limiter is never empty, so no time is followed and no goroutine waits
NextLock ==
    \/ Stop
    \/ FetchLogs
    \/ Lock
    \/ RangeGroup
    \/ AssignName
    \/ Launch
    \/ Drain
    \/ ObserveStop
    \/ Finish
    \/ \E w \in WorkerIds :
          \/ WStart(w)
          \/ WAllow(w)
          \/ WSsh(w)
          \/ WRunCmd(w)
          \/ WDiscover(w)
          \/ WSend(w)
    \/ OtherCall
    \/ OtherLock
    \/ OtherMerge
    \/ OtherReturn
    \/ OtherRLock
    \/ OtherCopy
    \/ OtherCopyConfig

SpecLock == InitLock /\ [][NextLock]_vars

(***************************************************************************)
(* The run when Stopc is never closed: every goroutine that can take a     *)
(* step takes one, every operation returns, time passes.                   *)
(***************************************************************************)
\* the place of the instance of a goroutine in ManyOrder
Rank(w) == CHOOSE k \in 1..Len(ManyOrder) : ManyOrder[k] = InstOf(w)

\* of the goroutines that are in the same state, the first in ManyOrder
Canonical(w) ==
    env.canon => \A x \in WorkerIds : wk[x] = wk[w] => Rank(w) <= Rank(x)

\* the launching loop takes the instances that cannot be told apart in ManyOrder
LaunchNext ==
    /\ Launch
    /\ \A w \in WorkerIds : wk'[w] # wk[w] => Canonical(w)

InitLive ==
    /\ InitIn({[nodes |-> NoInstance, logs |-> NothingCollected(NoInstance), env |-> Rich],
               [nodes |-> OneInstance, logs |-> NothingCollected(OneInstance), env |-> Rich],
               [nodes |-> TwoInstances, logs |-> NothingCollected(TwoInstances), env |-> Lean],
               [nodes |-> Many, logs |-> NothingCollected(Many), env |-> Unreachable]})
    /\ other = NoOther
    /\ sh = NoShorten
    /\ s3 = NoS3

NextLive ==
    \/ Tick
    \/ FetchLogs
    \/ Lock
    \/ RangeGroup
    \/ AssignName
    \/ LaunchNext
    \/ Drain
    \/ Finish
    \/ \E w \in WorkerIds :
          /\ Canonical(w)
          /\ \/ WStart(w)
             \/ WAllow(w)
             \/ WWait(w)
             \/ WSsh(w)
             \/ WRunCmd(w)
             \/ WDiscover(w)
             \/ WSend(w)

SpecLive == InitLive /\ [][NextLive]_vars /\ WF_vars(NextLive)

(***************************************************************************)
(* The run over a fleet of more instances than the channel holds, none of  *)
(* which accepts the session, and in which Stopc is closed while the       *)
(* channel is full: every goroutine that can take a step takes one.  No    *)
(* goroutine gets as far as a command.                                     *)
(***************************************************************************)
\* close(ts.cfg.Stopc) while ten records are in the channel
StopFull ==
    /\ Len(orch.rch) = ChanCap
    /\ Stop

InitStop ==
    /\ InitIn({[nodes |-> Many, logs |-> NothingCollected(Many), env |-> Unreachable]})
    /\ other = NoOther
    /\ sh = NoShorten
    /\ s3 = NoS3

NextStop ==
    \/ Tick
    \/ StopFull
    \/ FetchLogs
    \/ Lock
    \/ RangeGroup
    \/ AssignName
    \/ LaunchNext
    \/ Drain
    \/ ObserveStop
    \/ Finish
    \/ \E w \in WorkerIds :
          /\ Canonical(w)
          /\ \/ WStart(w)
             \/ WAllow(w)
             \/ WWait(w)
             \/ WSsh(w)
             \/ WSend(w)

SpecStop == InitStop /\ [][NextStop]_vars /\ WF_vars(NextStop)

(***************************************************************************)
(* DownloadClusterLogs: the run above is its call of FetchLogs; `other` is *)
(* the caller after that call.  left: the (group, instance) file lists not *)
(* yet visited; cur, k: the file list being copied and the place of the    *)
(* next path in it; copied: the copies made, source and target; config:    *)
(* whether the configuration file was copied; ret: what the call returned. *)
(***************************************************************************)
\* a group with one instance and a group whose instance of an earlier collection
\* is gone, and the file lists the earlier collection left for it
OneAndGone == ("g1" :> {"i1"}) @@ ("g2" :> {})
GoneCollected == ("g1" :> << >>) @@ ("g2" :> ("i2" :> EarlierPaths("i2")))

\* filepath.Join(artifactDir, filepath.Base(fpath))
NewPath(fpath) == <<"artifact", fpath[2], fpath[3]>>

\* the (group, instance) pairs that have a file list in Logs
FileLists(logs) ==
    {p \in (DOMAIN logs) \X UNION {DOMAIN logs[g] : g \in DOMAIN logs} :
        p[2] \in DOMAIN logs[p[1]]}

\* fileutil.Copy of a log file and of the configuration file
CopyOutcomes == {"ok", "copy error"}
ConfigOutcomes == {"ok", "config copy error"}

\* a copy loop that goes on after a failed copy
CopyGoesOn(v, err) == [v EXCEPT !.k = @ + 1]

\* if err := fileutil.Copy(fpath, newPath); err != nil { return err }
CopyFailed(v, err) == [v EXCEPT !.pc = "returned", !.ret = err]

\* err := ts.FetchLogs(); if err != nil { return err }
DownloadFetched ==
    /\ other.pc = "fetch"
    /\ orch.pc = "returned"
    /\ other' = [other EXCEPT !.pc = IF orch.ret = Nil THEN "rlock" ELSE "returned",
                              !.ret = orch.ret]
    /\ UNCHANGED <<s3, sh, env, prior, Nodes, Logs, synced, stopc, tokens, now, logsMu,
                   orch, wk>>

\* ts.logsMu.RLock(); defer ts.logsMu.RUnlock()
DownloadRLock ==
    /\ other.pc = "rlock"
    /\ CanRLock(logsMu)
    /\ logsMu' = "rheld"
    /\ other' = [other EXCEPT !.pc = "range", !.seen = Logs, !.left = FileLists(Logs)]
    /\ UNCHANGED <<s3, sh, env, prior, Nodes, Logs, synced, stopc, tokens, now, orch, wk>>

\* for _, v := range Nodes { for _, fpaths := range v.Logs {: the next file list,
\* of the group being visited as long as it has one left
DownloadRange ==
    /\ other.pc = "range"
    /\ other.left # {}
    /\ LET same == {p \in other.left : other.cur # << >> /\ p[1] = other.cur[1]}
           next == IF same # {} THEN same ELSE other.left
       IN \E p \in next :
             other' = [other EXCEPT !.pc = "copy", !.cur = p, !.k = 1, !.left = @ \ {p}]
    /\ UNCHANGED <<s3, sh, env, prior, Nodes, Logs, synced, stopc, tokens, now, logsMu,
                   orch, wk>>

\* for _, fpath := range fpaths { fileutil.Copy(fpath, newPath) }
DownloadCopy ==
    /\ other.pc = "copy"
    /\ LET fpaths == Logs[other.cur[1]][other.cur[2]]
       IN IF other.k > Len(fpaths)
          THEN /\ other' = [other EXCEPT !.pc = "range"]
               /\ UNCHANGED logsMu
          ELSE \E out \in CopyOutcomes :
                  LET fpath == fpaths[other.k]
                  IN IF out # "ok"
                     THEN /\ other' = CopyFailed(other, out)
                          /\ logsMu' = IF other'.pc = "returned" THEN "free" ELSE logsMu
                     ELSE /\ other' = [other EXCEPT
                                          !.copied = Append(@, <<fpath, NewPath(fpath)>>),
                                          !.k = @ + 1]
                          /\ UNCHANGED logsMu
    /\ UNCHANGED <<s3, sh, env, prior, Nodes, Logs, synced, stopc, tokens, now, orch, wk>>

\* return fileutil.Copy(ts.cfg.EKSConfig.ConfigPath, ...), and the read lock is
\* released
DownloadConfig ==
    /\ other.pc = "range"
    /\ other.left = {}
    /\ logsMu' = "free"
    /\ \E out \in ConfigOutcomes :
          other' = [other EXCEPT !.pc = "returned", !.ret = ErrOf(out),
                                 !.config = (out = "ok")]
    /\ UNCHANGED <<s3, sh, env, prior, Nodes, Logs, synced, stopc, tokens, now, orch, wk>>

InitDownload ==
    /\ InitIn({[nodes |-> OneInstance, logs |-> NothingCollected(OneInstance), env |-> Rich],
               [nodes |-> OneInstance, logs |-> AllCollected(OneInstance), env |-> Lean],
               [nodes |-> OneAndGone, logs |-> GoneCollected, env |-> Lean]})
    /\ other = [NoOther EXCEPT !.pc = "fetch"]
    /\ sh = NoShorten
    /\ s3 = NoS3

\* Stopc is not closed; with one instance the bucket of the limiter is never
\* empty, so no time is followed and no goroutine waits
NextDownload ==
    \/ FetchLogs
    \/ Lock
    \/ RangeGroup
    \/ AssignName
    \/ Launch
    \/ Drain
    \/ Finish
    \/ \E w \in WorkerIds :
          \/ WStart(w)
          \/ WAllow(w)
          \/ WSsh(w)
          \/ WRunCmd(w)
          \/ WDiscover(w)
          \/ WSend(w)
    \/ DownloadFetched
    \/ DownloadRLock
    \/ DownloadRange
    \/ DownloadCopy
    \/ DownloadConfig

SpecDownload == InitDownload /\ [][NextDownload]_vars

(***************************************************************************)
(* The S3 bucket functions: CreateBucket and createBucket, EmptyBucket,    *)
(* DeleteBucket (pkg/aws/s3) and deleteS3 (ec2).                           *)
(***************************************************************************)
\* for i := 0; i < 5; i++
MaxAttempts == 5

\* the errors an S3 API call may return: awserr.Error codes, and an error that is
\* no awserr.Error
AwsErrors ==
    {"BucketAlreadyExists", "BucketAlreadyOwnedByYou", "OperationAborted",
     "AccessDenied", "NoSuchBucket"}
OtherErrors == {"connection reset"}

\* case s3.ErrCodeBucketAlreadyExists, s3.ErrCodeBucketAlreadyOwnedByYou
AlreadyExist(e) == e \in {"BucketAlreadyExists", "BucketAlreadyOwnedByYou"}

\* "OperationAborted: A conflicting conditional operation ..." in the message,
\* request.IsErrorRetryable(err) or request.IsErrorThrottle(err)
Retryable(e) == e = "OperationAborted"

\* the outcomes of the API calls
CreateBucketOutcomes == {"ok"} \cup (AwsErrors \ {"NoSuchBucket"}) \cup OtherErrors
PutOutcomes == {"ok", "AccessDenied"}
DeleteOutcomes == {"ok", "NoSuchBucket", "AccessDenied"} \cup OtherErrors

\* what createBucket returns for the result of s3API.CreateBucket, when it returns
\* without tagging
CreateResult(e) ==
    IF AlreadyExist(e) THEN [retry |-> FALSE, err |-> Nil]
    ELSE [retry |-> Retryable(e), err |-> e]

\* a loop that tries again after every failed attempt
RetryAlways(v) ==
    IF v.err = Nil THEN [v EXCEPT !.pc = "returned", !.ret = Nil]
    ELSE [v EXCEPT !.pc = "loop", !.i = @ + 1]

\* if err == nil { break }; if retry { ...; continue }; return err
AfterAttempt(v) ==
    IF v.err = Nil THEN [v EXCEPT !.pc = "returned", !.ret = Nil]
    ELSE IF v.retry THEN [v EXCEPT !.pc = "loop", !.i = @ + 1]
    ELSE [v EXCEPT !.pc = "returned", !.ret = v.err]

\* a deleteS3 that looks at S3BucketCreate only
SkipUnlessCreated(v) == ~v.create

\* if !ts.cfg.S3BucketCreate { return nil }; if ts.cfg.S3BucketCreateKeep { return nil }
SkipDeletion(v) == ~v.create \/ v.keep

\* EmptyBucket and DeleteBucket: what they return for the error of their API call
EmptyBucketResult(e) == IF e \in {"ok", "NoSuchBucket"} THEN Nil ELSE e
DeleteBucketResult(e) == Nil

\* for i := 0; i < 5; i++ { retry, err = createBucket(...) }; return err
S3Loop ==
    /\ s3.pc = "loop"
    /\ s3' = IF s3.i < MaxAttempts THEN [s3 EXCEPT !.pc = "create"]
             ELSE [s3 EXCEPT !.pc = "returned", !.ret = s3.err]
    /\ UNCHANGED <<sh, other, env, prior, Nodes, Logs, synced, stopc, tokens, now, logsMu,
                   orch, wk>>

\* createBucket: s3API.CreateBucket and the switch on its error
S3CreateBucket ==
    /\ s3.pc = "create"
    /\ \E e \in CreateBucketOutcomes :
          LET v == [s3 EXCEPT !.calls = Append(@, "CreateBucket"), !.api = ErrOf(e)]
          IN s3' = IF e = "ok" THEN [v EXCEPT !.pc = "tag"]
                   ELSE [v EXCEPT !.pc = "attempted",
                                  !.retry = CreateResult(e).retry,
                                  !.err = CreateResult(e).err]
    /\ UNCHANGED <<sh, other, env, prior, Nodes, Logs, synced, stopc, tokens, now, logsMu,
                   orch, wk>>

\* createBucket: s3API.PutBucketTagging; if err != nil { return true, err }
S3PutBucketTagging ==
    /\ s3.pc = "tag"
    /\ \E e \in PutOutcomes :
          LET v == [s3 EXCEPT !.calls = Append(@, "PutBucketTagging"), !.api = ErrOf(e)]
          IN s3' = IF e # "ok" THEN [v EXCEPT !.pc = "attempted", !.retry = TRUE, !.err = e]
                   ELSE IF s3.lifecycle THEN [v EXCEPT !.pc = "lifecycle"]
                   ELSE [v EXCEPT !.pc = "attempted", !.retry = FALSE, !.err = Nil]
    /\ UNCHANGED <<sh, other, env, prior, Nodes, Logs, synced, stopc, tokens, now, logsMu,
                   orch, wk>>

\* createBucket: s3API.PutBucketLifecycle; if err != nil { return true, err };
\* return false, nil
S3PutBucketLifecycle ==
    /\ s3.pc = "lifecycle"
    /\ \E e \in PutOutcomes :
          s3' = [s3 EXCEPT !.calls = Append(@, "PutBucketLifecycle"), !.api = ErrOf(e),
                           !.pc = "attempted", !.retry = (e # "ok"), !.err = ErrOf(e)]
    /\ UNCHANGED <<sh, other, env, prior, Nodes, Logs, synced, stopc, tokens, now, logsMu,
                   orch, wk>>

\* the body of the loop of CreateBucket after createBucket returned
S3Attempted ==
    /\ s3.pc = "attempted"
    /\ s3' = AfterAttempt(s3)
    /\ UNCHANGED <<sh, other, env, prior, Nodes, Logs, synced, stopc, tokens, now, logsMu,
                   orch, wk>>

\* deleteS3 up to the call of EmptyBucket
S3DeleteEntry ==
    /\ s3.pc = "entry"
    /\ s3' = IF SkipDeletion(s3) THEN [s3 EXCEPT !.pc = "returned", !.ret = Nil]
             ELSE [s3 EXCEPT !.pc = "empty"]
    /\ UNCHANGED <<sh, other, env, prior, Nodes, Logs, synced, stopc, tokens, now, logsMu,
                   orch, wk>>

\* EmptyBucket: batcher.Delete and the switch on its error; in deleteS3,
\* if err := aws_s3.EmptyBucket(...); err != nil { return err }
S3EmptyBucket ==
    /\ s3.pc = "empty"
    /\ \E e \in DeleteOutcomes :
          LET r == EmptyBucketResult(e)
              v == [s3 EXCEPT !.calls = Append(@, "DeleteObjects"), !.api = ErrOf(e),
                              !.emptied = r]
          IN s3' = IF s3.fn = "deleteS3" /\ r = Nil THEN [v EXCEPT !.pc = "delete"]
                   ELSE [v EXCEPT !.pc = "returned", !.ret = r]
    /\ UNCHANGED <<sh, other, env, prior, Nodes, Logs, synced, stopc, tokens, now, logsMu,
                   orch, wk>>

\* DeleteBucket: s3API.DeleteBucket and what follows its error; in deleteS3,
\* return aws_s3.DeleteBucket(...)
S3DeleteBucket ==
    /\ s3.pc = "delete"
    /\ \E e \in DeleteOutcomes :
          s3' = [s3 EXCEPT !.calls = Append(@, "DeleteBucket"), !.api = ErrOf(e),
                           !.pc = "returned", !.ret = DeleteBucketResult(e)]
    /\ UNCHANGED <<sh, other, env, prior, Nodes, Logs, synced, stopc, tokens, now, logsMu,
                   orch, wk>>

\* the calls followed: CreateBucket with and without a lifecycle, deleteS3 with
\* every value of S3BucketCreate and S3BucketCreateKeep, EmptyBucket, DeleteBucket
S3Calls ==
    {[NoS3 EXCEPT !.fn = "CreateBucket", !.pc = "loop", !.lifecycle = l] : l \in BOOLEAN}
    \cup {[NoS3 EXCEPT !.fn = "deleteS3", !.pc = "entry", !.create = c, !.keep = k] :
             c \in BOOLEAN, k \in BOOLEAN}
    \cup {[NoS3 EXCEPT !.fn = "EmptyBucket", !.pc = "empty"],
          [NoS3 EXCEPT !.fn = "DeleteBucket", !.pc = "delete"]}

InitS3 ==
    /\ InitIn({[nodes |-> NoInstance, logs |-> NothingCollected(NoInstance), env |-> Lean]})
    /\ other = NoOther
    /\ sh = NoShorten
    /\ s3 \in S3Calls

NextS3 ==
    \/ S3Loop
    \/ S3CreateBucket
    \/ S3PutBucketTagging
    \/ S3PutBucketLifecycle
    \/ S3Attempted
    \/ S3DeleteEntry
    \/ S3EmptyBucket
    \/ S3DeleteBucket

SpecS3 == InitS3 /\ [][NextS3]_vars

(***************************************************************************)
(* Properties of the merge.                                                *)
(***************************************************************************)
SeqToSet(q) == {q[k] : k \in 1..Len(q)}

\* the instance of a group has an entry in a Logs value
HasEntry(logs, g, i) == g \in DOMAIN logs /\ i \in DOMAIN logs[g]

\* this step is an iteration of the drain loop that receives a record
Receives == orch.pc = "drain" /\ orch.rch # << >> /\ Len(orch'.rch) < Len(orch.rch)

\* this step is the drain loop taking the Stopc case
Cancels ==
    /\ orch.pc = "drain" /\ orch.i < orch.waits /\ stopc
    /\ orch'.pc = "returned" /\ orch'.rch = orch.rch

\* the run has returned from the Stopc case
Cancelled == orch.pc = "returned" /\ orch.ret \in {Nil, "sync error"} /\ orch.i < orch.waits

\* the run has returned after it drained every record
Completed ==
    /\ orch.pc = "returned" /\ orch.ret \in {Nil, "sync error"}
    /\ orch.i = orch.waits /\ orch.groups = {}

\* the goroutine has sent a record without an error
SentSuccess(w) == wk[w].nsent >= 1 /\ wk[w].rec.err = Nil

\* C1: once an instance has an entry under a group in Nodes[..].Logs, no step
\* changes or replaces the file list of that entry.
C1_EntriesAreKept ==
    [][\A g \in DOMAIN Logs : \A i \in DOMAIN Logs[g] :
          HasEntry(Logs', g, i) /\ Logs'[g][i] = Logs[g][i]]_vars

\* a record of an instance that already had an entry was drained, and the entry
\* is the one the earlier collection left
C1_Witness ==
    /\ orch.ret = "redundant"
    /\ \E g \in DOMAIN prior : \E i \in DOMAIN prior[g] : Logs[g][i] = EarlierPaths(i)

\* C2: when the drain loop receives a successful record whose group is no key of
\* Nodes, or whose instance already has an entry under the record's group, the run
\* returns a non-nil error at that record and Logs is left as it was; after the
\* run has returned nothing is received or merged any more.
C2_ViolationEndsRun ==
    /\ [][(/\ Receives
           /\ Head(orch.rch).err = Nil
           /\ \/ Head(orch.rch).mngName \notin DOMAIN Nodes
              \/ HasEntry(Logs, Head(orch.rch).mngName, Head(orch.rch).instanceID))
          => (/\ orch'.pc = "returned"
              /\ orch'.ret # Nil
              /\ Logs' = Logs
              /\ synced' = synced)]_vars
    /\ [][orch.pc = "returned"
          => (/\ orch'.pc = "returned" /\ orch'.ret = orch.ret
              /\ orch'.i = orch.i /\ orch'.merged = orch.merged
              /\ Len(orch'.rch) >= Len(orch.rch)
              /\ Logs' = Logs)]_vars

\* the run returned at a record of an unknown group while a later, successful
\* record waits in the channel
C2_Witness ==
    /\ orch.ret = "unknown group"
    /\ \E k \in 1..Len(orch.rch) : orch.rch[k].err = Nil

\* the records the drain loop has received
Received == orch.i + (IF orch.ret \in {"unknown group", "redundant"} THEN 1 ELSE 0)

\* C3 as stated: every goroutine that has returned has sent exactly one record.
C3_ExactlyOneRecord ==
    \A w \in WorkerIds : wk[w].pc \in {"done", "exited"} => wk[w].nsent = 1

\* C3 amended: a goroutine sends at most one record; one that found Stopc closed
\* at its first check has returned without a record, every other goroutine that
\* has returned has sent exactly one, also when the session could not be created;
\* the records in the channel and the records received are the records sent.
C3_AtMostOneRecord ==
    /\ \A w \in WorkerIds :
          /\ wk[w].nsent = (IF wk[w].pc = "done" THEN 1 ELSE 0)
          /\ wk[w].pc = "exited" => stopc /\ wk[w].ops = 0
    /\ Len(orch.rch) + Received = SumOver(WorkerIds, [w \in WorkerIds |-> wk[w].nsent])

\* one goroutine returned at its first check, another sent the record of a session
\* that could not be created
C3_Witness ==
    \E w, x \in WorkerIds :
       /\ wk[w].pc = "exited"
       /\ wk[x].pc = "done"
       /\ wk[x].rec.err \in {"ssh.New error", "connect error"}

\* C4 as stated: when the drain loop takes the Stopc case, every successful record
\* that a goroutine has sent has been merged.
C4_AllSentAreMerged ==
    [][Cancels => \A w \in WorkerIds : SentSuccess(w) => wk[w].rec \in orch.merged]_vars

\* C4 amended: when the drain loop takes the Stopc case, Logs is left as it is and
\* Sync writes it out (unless Sync fails, and then its error is returned); Logs
\* holds the entries of before the run and, for exactly the successful records
\* received before, the complete file list of the record under the group and
\* instance the record carries; a record still in the channel is not merged.
C4_ReceivedAreMerged ==
    /\ [][Cancels => (/\ Logs' = Logs
                      /\ orch'.ret \in {Nil, "sync error"}
                      /\ orch'.ret = Nil => synced' = Logs)]_vars
    /\ [](/\ \A g \in DOMAIN Logs : \A i \in DOMAIN Logs[g] :
               \/ HasEntry(prior, g, i) /\ Logs[g][i] = prior[g][i]
               \/ \E d \in orch.merged :
                     d.mngName = g /\ d.instanceID = i
          /\ \A d \in orch.merged :
               /\ d.err = Nil
               /\ HasEntry(Logs, d.mngName, d.instanceID)
               /\ Logs[d.mngName][d.instanceID] = d.paths
               /\ \E w \in WorkerIds :
                     /\ InstOf(w) = d.instanceID
                     /\ wk[w].nsent = 1
                     /\ wk[w].rec = d
                     /\ SeqToSet(d.paths) = wk[w].files
          /\ (Cancelled /\ orch.ret = Nil) => synced = Logs)

\* the run returned from the Stopc case after it merged one record, with another
\* successful record in the channel
C4_Witness ==
    /\ Cancelled
    /\ orch.merged # {}
    /\ \E k \in 1..Len(orch.rch) : orch.rch[k].err = Nil

\* C5: a run that starts with no entry, in which no operation fails and Stopc is
\* not closed, returns nil with exactly one entry, of a non-empty file list, for
\* every instance under its group; a run without failure over a status in which
\* every instance has an entry returns the error of the redundant instance.
C5_CleanRun ==
    (/\ orch.pc = "returned"
     /\ ~stopc
     /\ orch.ret \notin SetupErrors \cup {"sync error"}
     /\ \A w \in WorkerIds : ~wk[w].failed)
    => IF prior = NothingCollected(Nodes)
       THEN /\ orch.ret = Nil
            /\ \A g \in DOMAIN Nodes :
                  /\ DOMAIN Logs[g] = Nodes[g]
                  /\ \A i \in Nodes[g] : Logs[g][i] # << >>
       ELSE (\E g \in DOMAIN Nodes : Nodes[g] # {}) => orch.ret = "redundant"

\* C6: the group name a goroutine puts into its record is the group from whose
\* Instances the goroutine was launched, and every entry of Logs is under the
\* group the instance belongs to.
C6_RecordCarriesOwnGroup ==
    /\ \A w \in WorkerIds :
          /\ wk[w].data # NoRec => wk[w].data.mngName = GroupOf(w)
          /\ wk[w].pc \in {"send", "done"} => wk[w].rec.mngName = GroupOf(w)
    /\ \A g \in DOMAIN Logs : DOMAIN Logs[g] \subseteq Nodes[g]

\* the goroutine has sent a successful record and Logs holds its file list under
\* the group and instance the record carries
Merged(w) ==
    /\ SentSuccess(w)
    /\ HasEntry(Logs, wk[w].rec.mngName, wk[w].rec.instanceID)
    /\ Logs[wk[w].rec.mngName][wk[w].rec.instanceID] = wk[w].rec.paths

\* C7 as stated: in a run in which Stopc is not closed, once the run has returned
\* every instance whose goroutine made a successful record is merged.
C7_SiblingsAreMerged ==
    (orch.pc = "returned" /\ ~stopc)
    => \A w \in WorkerIds : (wk[w].pc = "done" /\ ~wk[w].failed) => Merged(w)

\* C7 amended: receiving a record that carries an error leaves Logs as it is and
\* the drain loop goes on without an error; in a run that has drained every record
\* and returned nil, every goroutine has sent its record and every successful
\* record is merged under the group and instance it carries, whichever goroutines
\* failed and in whatever order the records arrived.
C7_ErrorsAreSkipped ==
    /\ [][(Receives /\ Head(orch.rch).err # Nil)
          => (/\ Logs' = Logs
              /\ synced' = synced
              /\ orch'.pc = "drain"
              /\ orch'.ret = Nil
              /\ orch'.i = orch.i + 1)]_vars
    /\ [](Completed
          => \A w \in WorkerIds :
                wk[w].pc # "none"
                => /\ wk[w].pc = "done"
                   /\ ~wk[w].failed => Merged(w)
                   /\ wk[w].failed => wk[w].rec \notin orch.merged)

\* a run of two instances drained the error record of one first and merged the
\* other
C7_Witness ==
    /\ Completed
    /\ \E w, x \in WorkerIds :
          /\ wk[w].failed
          /\ Merged(x)
          /\ Logs = [g \in DOMAIN Nodes |->
                        IF g = GroupOf(x) THEN InstOf(x) :> wk[x].rec.paths ELSE << >>]

\* C8: a goroutine in which an operation has failed starts no further remote
\* operation, asks the limiter no more and creates no further file; the step of
\* the failure changes no other goroutine; the record it sends, exactly one,
\* carries the error and no path.
C8_FirstFailureEndsWorker ==
    /\ [][\A w \in WorkerIds :
             /\ wk[w].failed
                => /\ wk'[w].failed
                   /\ wk'[w].ops = wk[w].ops
                   /\ wk'[w].cmds = wk[w].cmds
                   /\ wk'[w].probes = wk[w].probes
                   /\ wk'[w].taken = wk[w].taken
                   /\ wk'[w].files = wk[w].files
                   /\ wk'[w].rec = wk[w].rec
             /\ (~wk[w].failed /\ wk'[w].failed)
                => /\ \A x \in WorkerIds \ {w} : wk'[x] = wk[x]
                   /\ orch' = orch /\ tokens' = tokens /\ Logs' = Logs]_vars
    /\ [](\A w \in WorkerIds :
             wk[w].failed
             => /\ wk[w].rec.err # Nil
                /\ wk[w].rec.paths = << >>
                /\ wk[w].pc \in {"send", "done"}
                /\ wk[w].nsent = (IF wk[w].pc = "done" THEN 1 ELSE 0))

\* a goroutine failed after it had run commands and has sent its record, while
\* the goroutine of the other instance went on to a successful record
C8_Witness ==
    \E w, x \in WorkerIds :
       /\ wk[w].failed /\ wk[w].pc = "done" /\ wk[w].cmds >= 2
       /\ wk[x].pc = "done" /\ ~wk[x].failed
       /\ wk[x].cmds > wk[w].cmds

\* the tokens granted to all goroutines
TotalTaken == SumOver(WorkerIds, [w \in WorkerIds |-> wk[w].taken])

\* the remote operations started by all goroutines
TotalOps == SumOver(WorkerIds, [w \in WorkerIds |-> wk[w].ops])

\* C9: a goroutine probes Allow before every remote operation; it starts the
\* operation only with a token, granted by Allow or, after Allow denied, by Wait;
\* every started operation has taken exactly one token out of the one bucket.
C9_OneTokenPerCommand ==
    /\ \A w \in WorkerIds :
          /\ wk[w].probes = wk[w].ops + (IF wk[w].pc \in {"wait", "run"} THEN 1 ELSE 0)
          /\ wk[w].taken = wk[w].ops + (IF wk[w].pc = "run" THEN 1 ELSE 0)
          /\ wk[w].waited <= wk[w].probes
          /\ wk[w].cmds <= wk[w].ops
    /\ tokens >= 0
    /\ now < MaxTime => tokens + TotalTaken = burst + now

\* a goroutine was denied by Allow, was granted by Wait and ran the command
C9_Witness ==
    \E w \in WorkerIds :
       /\ wk[w].waited >= 1
       /\ wk[w].pc = "gate"
       /\ wk[w].ops = wk[w].taken
       /\ wk[w].cmds >= 2

\* C10: the goroutines together start at most burst operations at once and one
\* more per time unit after that: at most burst + t operations within t units.
\* From the start of the run the bound is on the count of operations; for an
\* interval that starts later it follows from the three facts that the bucket
\* never holds more than burst tokens, that an operation is started only with a
\* token taken, and that tokens are gained only one per time unit.
C10_RateBound ==
    /\ [](/\ tokens \in 0..burst
          /\ TotalOps <= TotalTaken
          /\ now < MaxTime => TotalOps <= burst + now)
    /\ [][/\ (tokens' + TotalTaken') - (tokens + TotalTaken) \in {0, 1}
          /\ (tokens' + TotalTaken') > (tokens + TotalTaken)
             => (TotalTaken' = TotalTaken /\ TotalOps' = TotalOps
                 /\ (now' = now + 1 \/ now = MaxTime))]_vars

\* more operations than the burst were started, the last after a time unit passed
C10_Witness ==
    /\ now >= 1
    /\ now < MaxTime
    /\ TotalOps = burst + now

(***************************************************************************)
(* Properties of the files and of the discovery.                           *)
(***************************************************************************)
\* the goroutine has built a record without an error
Succeeded(w) == wk[w].pc \in {"send", "done"} /\ ~wk[w].failed

\* C11: the record of an instance whose collection succeeds lists as many paths as
\* there are distinct files written for the instance, whatever the remote host
\* lists, also when two listed paths share a base name or a listed name equals
\* a fixed file name.
C11_PathsAreDistinctFiles ==
    \A w \in WorkerIds : Succeeded(w) => Len(wk[w].rec.paths) = Cardinality(wk[w].files)

ToSelect(out) ==
    {out[k][1] : k \in {j \in 1..Len(out) :
                          /\ Len(out[j]) >= 5
                          /\ out[j][2] # "not-found"
                          /\ out[j][3] # "inactive"}}

\* the journal files of units among the files of a goroutine
UnitFiles(w) == {f \in wk[w].files : Len(f[3]) = 2 /\ f[3][2] = ".out.log"}

\* C13: a line of the list-units output is selected exactly when it has at least 5
\* fields, its second field is not `not-found` and its third is not `inactive`;
\* for the unit of every selected line, and for nothing else, one journal command
\* is run and its output is written to <unit>.out.log.
C13_FilterSelects ==
    \A w \in WorkerIds :
       /\ \A f \in UnitFiles(w) : f[3][1] \in ToSelect(wk[w].listed)
       /\ (wk[w].stage = "svc" /\ ~wk[w].failed)
          => {c[3] : c \in DOMAIN wk[w].m} = ToSelect(wk[w].listed)
       /\ (wk[w].stage = "eni" /\ ~wk[w].failed)
          => /\ UnitFiles(w) = {Path(RunDir, InstOf(w), <<u, ".out.log">>) :
                                   u \in ToSelect(wk[w].listed)}
             /\ wk[w].cmds = Cardinality(DOMAIN logCmds) + 1
                             + Cardinality(ToSelect(wk[w].listed))

\* the journals of the two selected units of a listing with an empty line, a
\* not-found unit and six fields are written, and the loop is over
C13_Witness ==
    \E w \in WorkerIds :
       /\ wk[w].stage = "eni"
       /\ Len(wk[w].listed) = 4
       /\ ToSelect(wk[w].listed) = {"sshd.service", "kubelet.service"}
       /\ Cardinality(UnitFiles(w)) = 2

\* C14: for a name of more than 240 characters shorten returns a name that is
\* shorter than its argument and that is the first 230 characters of the argument,
\* then 5 characters out of [0-9a-z], then the extension of the argument.
C14_ShortenShortens ==
    (sh.pc = "ret" /\ Len(sh.name) > 240)
    => /\ Len(sh.out) < Len(sh.name)
       /\ SubSeq(sh.out, 1, 230) = SubSeq(sh.name, 1, 230)
       /\ \A k \in 231..235 : sh.out[k] \in ll
       /\ SubSeq(sh.out, 236, Len(sh.out)) = Ext(sh.name)

(***************************************************************************)
(* Properties of the setup, of the persistence and of the cancellation.    *)
(***************************************************************************)
\* C15: when the setup fails (the add-on is disabled, the log directory or the
\* run directory cannot be created), the run has returned that error and no
\* goroutine was launched, no remote operation was started, Fleet Status and
\* durable storage are as they were and Sync was never called.
C15_SetupFailureDoesNothing ==
    orch.ret \in SetupErrors
    => /\ orch.pc = "returned"
       /\ orch.waits = 0
       /\ \A w \in WorkerIds : wk[w] = InitWk
       /\ TotalOps = 0
       /\ Logs = prior
       /\ synced = prior
       /\ orch.nsync = 0
       /\ logsMu = "free"

\* a run over two instances returned the error of the run-directory allocation
C15_Witness ==
    /\ orch.ret = "tempdir error"
    /\ Nodes = TwoInstances

\* C16: when the drain loop takes the Stopc case it receives and merges nothing
\* more, calls Sync exactly once and returns what Sync returned: nil, and durable
\* storage then holds Logs, or the error of Sync.  Every record merged before
\* still has its entry in Logs, and nothing is received or merged after the
\* return.
C16_CancelSyncsOnce ==
    /\ [][Cancels => (/\ orch'.nsync = orch.nsync + 1
                      /\ orch'.ret = orch'.sres
                      /\ orch'.ret \in {Nil, "sync error"}
                      /\ orch'.sres = Nil => synced' = Logs'
                      /\ orch'.i = orch.i
                      /\ orch'.merged = orch.merged
                      /\ Logs' = Logs)]_vars
    /\ [][Cancelled => (/\ orch' = [orch EXCEPT !.rch = orch'.rch]
                        /\ Logs' = Logs
                        /\ synced' = synced)]_vars
    /\ [](Cancelled
          => /\ \A d \in orch.merged :
                   /\ HasEntry(Logs, d.mngName, d.instanceID)
                   /\ Logs[d.mngName][d.instanceID] = d.paths
             /\ orch.ret = Nil => synced = Logs)

\* the run returned nil from the Stopc case after it merged a record, a Sync
\* before the last one having failed or not
C16_Witness ==
    /\ Cancelled
    /\ orch.ret = Nil
    /\ orch.merged # {}
    /\ orch.nsync = 2
    /\ Logs # prior
    /\ synced = Logs

\* this step merges the record it receives
Merges == Receives /\ orch'.merged # orch.merged

\* this step ends the run from the drain loop or after it
Ends == orch.pc = "drain" /\ orch'.pc = "returned"

\* this step ends the run with the error of an unknown group or a redundant instance
EndsByViolation == Ends /\ orch'.ret \in {"unknown group", "redundant"}

\* C17 as stated: Sync is called after every merge, before the next record is
\* received, and once more at every end of the run, the end by an unknown group
\* or a redundant instance included; where a record is received, durable storage
\* holds Logs (as far as the last Sync did not fail).
C17_SyncAtEveryEnd ==
    [][/\ Merges => orch'.nsync = orch.nsync + 1
       /\ Ends => orch'.nsync = orch.nsync + 1
       /\ (Receives /\ orch.sres = Nil) => synced = Logs]_vars

\* C17 amended: Sync is called in the iteration that merges a record, before the
\* next record is received, and once more when the run ends after the loop or by
\* the Stopc case; the return for an unknown group or a redundant instance calls
\* no Sync and leaves Logs and durable storage as the last Sync left them.  A
\* Sync that returns nil leaves Logs in durable storage, so where a record is
\* received or the run ends, durable storage holds Logs unless the last Sync failed.
C17_SyncAfterMergeAndAtEnd ==
    [][/\ Merges => (/\ orch'.nsync = orch.nsync + 1
                     /\ orch'.sres = Nil => synced' = Logs')
       /\ (Ends /\ ~EndsByViolation)
          => (/\ orch'.nsync = orch.nsync + 1
              /\ orch'.ret = orch'.sres
              /\ orch'.sres = Nil => synced' = Logs')
       /\ EndsByViolation
          => (/\ orch'.nsync = orch.nsync
              /\ orch'.sres = orch.sres
              /\ Logs' = Logs
              /\ synced' = synced)
       /\ (Receives /\ ~Merges) => orch'.nsync = orch.nsync
       /\ ((Receives \/ Ends) /\ orch.sres = Nil) => synced = Logs]_vars

\* the run merged a record, Sync wrote it out, and the run then returned the error
\* of an unknown group without another Sync
C17_Witness ==
    /\ orch.pc = "returned"
    /\ orch.ret = "unknown group"
    /\ orch.merged # {}
    /\ orch.nsync = 1
    /\ orch.sres = Nil
    /\ synced = Logs

\* the goroutine returned at its check of Stopc
Exited(w) == wk[w].pc = "exited"

\* the goroutine has done nothing: no call of the limiter, no session, no command,
\* no file, no record
DidNothing(w) ==
    /\ wk[w].probes = 0 /\ wk[w].waited = 0 /\ wk[w].taken = 0
    /\ wk[w].ops = 0 /\ wk[w].cmds = 0
    /\ wk[w].files = {}
    /\ wk[w].nsent = 0

\* C19 as stated: a goroutine that finds Stopc closed at its check has done and
\* does nothing, and no goroutine starts a session or a command once Stopc is
\* closed.
C19_NoCommandAfterStop ==
    \A w \in WorkerIds :
       /\ Exited(w) => (stopc /\ DidNothing(w))
       /\ ~wk[w].late

\* C19 amended: a goroutine that finds Stopc closed at its check returns there
\* and has done nothing; Stopc is looked at only there, so a goroutine that has
\* passed the check does not return because of Stopc: it goes on to start its
\* session and its commands, and to send its record, with Stopc closed.
C19_StopSeenOnlyAtStart ==
    /\ [](\A w \in WorkerIds : Exited(w) => (stopc /\ DidNothing(w)))
    /\ [][\A w \in WorkerIds :
             /\ (wk[w].pc = "start" /\ stopc /\ wk'[w] # wk[w]) => Exited(w)'
             /\ (wk[w].pc = "start" /\ ~stopc) => ~Exited(w)'
             /\ wk[w].pc \notin {"start", "exited"} => ~Exited(w)'
             /\ Exited(w) => wk'[w] = wk[w]]_vars

\* one goroutine returned at its check of Stopc; another, past its check, started
\* commands with Stopc closed and sent its record
C19_Witness ==
    \E w, x \in WorkerIds :
       /\ Exited(w)
       /\ wk[x].late /\ wk[x].cmds >= 2 /\ wk[x].nsent = 1

(***************************************************************************)
(* Properties of the lock.                                                 *)
(***************************************************************************)
\* a goroutine of the run is launched and has not returned
Executing(w) == wk[w].pc \notin {"none", "exited", "done"}

\* the lock is held by exactly the caller that is between its Lock and its
\* return, the read lock by the caller that copies; never by two
MutualExclusion ==
    /\ ~(InRun(orch.pc) /\ other.pc \in {"run", "copy", "config"})
    /\ logsMu = "held" <=> (InRun(orch.pc) \/ other.pc = "run")
    /\ logsMu = "rheld" <=> other.pc \in {"copy", "config"}

\* Logs is changed only by a caller that holds the lock, and is not changed while
\* the second caller copies
MutatedUnderLock ==
    /\ [][Logs' # Logs
          => /\ logsMu = "held"
             /\ other.pc \notin {"copy", "config"}
             /\ orch'.merged # orch.merged => (InRun(orch.pc) /\ other.pc # "run")
             /\ orch'.merged = orch.merged => (other.pc = "run" /\ ~InRun(orch.pc))]_vars
    /\ [](other.pc \in {"copy", "config"} => other.seen = Logs)

M == Cardinality(WorkerIds)

\* C20: when Stopc is never closed, no unknown group and no redundant instance
\* occurs and every operation returns, the run over M instances (none, one, two,
\* or more than the channel holds) returns; if the setup did not fail it returns
\* after it received exactly M records, one of every goroutine, and Logs then has
\* an entry for exactly the instances whose record carried no error.
C20_RunReturns ==
    /\ <>(orch.pc = "returned")
    /\ [](orch.ret \notin {"unknown group", "redundant"})
    /\ []((orch.pc = "returned" /\ orch.ret \notin SetupErrors)
          => /\ orch.i = M
             /\ orch.waits = M
             /\ orch.rch = << >>
             /\ \A w \in WorkerIds : wk[w].pc = "done" /\ wk[w].nsent = 1
             /\ \A w \in WorkerIds :
                   HasEntry(Logs, GroupOf(w), InstOf(w)) <=> wk[w].rec.err = Nil
             /\ \A g \in DOMAIN Logs : \A i \in DOMAIN Logs[g] : <<g, i>> \in WorkerIds)

\* the run over more instances than the channel holds has returned after it
\* received the record of each
C20_Witness ==
    /\ M > ChanCap
    /\ orch.pc = "returned"
    /\ orch.i = M

(***************************************************************************)
(* Properties of the goroutines' end.                                      *)
(***************************************************************************)
\* C21: every goroutine that was launched returns: none stays blocked at its send
\* into the channel, also when the run has returned from the Stopc case or for
\* an unknown group or a redundant instance.
C21_WorkersTerminate == <>[](\A w \in WorkerIds : ~Executing(w))

(***************************************************************************)
(* Properties of the goroutine's record and of the order of its stages.    *)
(***************************************************************************)
\* the session of the goroutine could not be created or connected
SessionFailed(w) == wk[w].rec.err \in {"ssh.New error", "connect error"}

\* C22: a goroutine whose session cannot be created or connected runs no command
\* and creates no file, and its one record carries the error, no path, and the
\* group name and the instance ID of its instance.
C22_SessionFailureRecord ==
    \A w \in WorkerIds :
       SessionFailed(w)
       => /\ wk[w].cmds = 0
          /\ wk[w].files = {}
          /\ wk[w].nsent <= 1
          /\ wk[w].rec.paths = << >>
          /\ wk[w].rec.mngName = GroupOf(w)
          /\ wk[w].rec.instanceID = InstOf(w)

\* the stage that may follow a stage (none before the session and once the
\* goroutine sends): the next one, or the one after a range loop over an empty map
StageOrder ==
    { <<"", "ssh">>, <<"ssh", "static">>, <<"static", "list">>, <<"list", "svc">>, <<"list", "eni">>,
      <<"svc", "eni">>, <<"eni", "find">>, <<"find", "cat">>,
      <<"ssh", "">>, <<"static", "">>, <<"list", "">>, <<"svc", "">>, <<"eni", "">>,
      <<"find", "">>, <<"cat", "">> }

\* the files of the stages of an instance
StaticFiles(i) == {Path(RunDir, i, logCmds[c]) : c \in DOMAIN logCmds}
ServiceFiles(i, out) == {Path(RunDir, i, <<u, ".out.log">>) : u \in ToSelect(out)}
EniFile(i) == Path(RunDir, i, <<"v1-enis">>)
LogDirFiles(i, out) == {Path(RunDir, i, <<Base(out[k])>>) : k \in 1..Len(out)}

\* the paths at the places a..b of a file list
Part(p, a, b) == {p[k] : k \in a..b}

\* C23: a goroutine goes through its stages in the order static commands, list of
\* units, journal commands, ENI probe, find, cat commands; it is in a stage only
\* if nothing has failed before, with the files of all earlier stages written; and
\* the file list of a record without error has the static files first, then the
\* journal files, then the ENI file, then the files of the log directory, each
\* stage's files in the order they were written.
C23_StagesInOrder ==
    /\ [][\A w \in WorkerIds :
             /\ wk'[w].stage # wk[w].stage
                => <<wk[w].stage, wk'[w].stage>> \in StageOrder
             /\ (wk[w].stage # "" /\ wk'[w].stage # "")
                => SubSeq(wk'[w].data.paths, 1, Len(wk[w].data.paths)) = wk[w].data.paths
             /\ (wk[w].stage # "" /\ wk'[w].stage = "" /\ ~wk'[w].failed)
                => SubSeq(wk'[w].rec.paths, 1, Len(wk[w].data.paths))
                      = wk[w].data.paths]_vars
    /\ [](\A w \in WorkerIds :
             LET i == InstOf(w)
                 ns == Cardinality(DOMAIN logCmds)
                 nu == Cardinality(ToSelect(wk[w].listed))
                 d == wk[w].data.paths
             IN /\ wk[w].stage \notin {"", "ssh"} => ~wk[w].failed
                /\ wk[w].stage = "list"
                   => Len(d) = ns /\ Part(d, 1, ns) = StaticFiles(i)
                /\ wk[w].stage = "eni"
                   => /\ Len(d) = ns + nu
                      /\ Part(d, 1, ns) = StaticFiles(i)
                      /\ Part(d, ns + 1, ns + nu) = ServiceFiles(i, wk[w].listed)
                /\ wk[w].stage \in {"find", "cat"}
                   => /\ Len(d) >= ns + nu + 1
                      /\ d[ns + nu + 1] = EniFile(i)
                /\ Succeeded(w)
                   => LET p == wk[w].rec.paths
                      IN /\ Part(p, 1, ns) = StaticFiles(i)
                         /\ Part(p, ns + 1, ns + nu) = ServiceFiles(i, wk[w].listed)
                         /\ p[ns + nu + 1] = EniFile(i)
                         /\ \E out \in env.finds :
                               /\ Len(p) = ns + nu + 1 + Len(out)
                               /\ Part(p, ns + nu + 2, Len(p)) = LogDirFiles(i, out))

\* a goroutine has sent a record without error that lists static files, two
\* journal files, the ENI file and two files of the log directory
C23_Witness ==
    \E w \in WorkerIds :
       /\ Succeeded(w) /\ wk[w].pc = "done"
       /\ Cardinality(ToSelect(wk[w].listed)) = 2
       /\ Len(wk[w].rec.paths)
             = Cardinality(DOMAIN logCmds) + Cardinality(ToSelect(wk[w].listed)) + 3

(***************************************************************************)
(* Properties of shorten at its threshold.                                 *)
(***************************************************************************)
\* C24 as stated: shorten returns a name of at most 240 characters as it is,
\* names of 239 and of 240 characters included, and changes only names of more
\* than 240 characters.
C24_UnchangedUpTo240 ==
    sh.pc = "ret"
    => /\ Len(sh.name) <= 240 => sh.out = sh.name
       /\ sh.out # sh.name => Len(sh.name) > 240

\* C24 amended: shorten returns a name of fewer than 240 characters as it is, a
\* name of 239 characters included; for a name of 240 characters or more it returns
\* the first 230 characters, five characters of randString and the extension, which
\* is another name unless the name has that form already.
C24_UnchangedBelow240 ==
    sh.pc = "ret"
    => /\ Len(sh.name) < 240 => sh.out = sh.name
       /\ Len(sh.name) >= 240
          => \E rnd \in randString(5) :
                sh.out = SubSeq(sh.name, 1, 230) \o rnd \o Ext(sh.name)
       /\ sh.out # sh.name => Len(sh.name) >= 240

\* shorten has returned another name for a name of exactly 240 characters
C24_Witness ==
    /\ sh.pc = "ret"
    /\ Len(sh.name) = 240
    /\ sh.out # sh.name
    /\ Len(sh.out) < 240

(***************************************************************************)
(* Properties of the group names on the channel.                           *)
(***************************************************************************)
\* C25: Nodes is the same during the whole run, so the run never returns the
\* error of an unknown group: every record in the channel, and every record a
\* goroutine is about to send, carries a group name that is a key of Nodes.
C25_GroupIsKnown ==
    /\ orch.ret # "unknown group"
    /\ \A k \in 1..Len(orch.rch) : orch.rch[k].mngName \in DOMAIN Nodes
    /\ \A w \in WorkerIds :
          wk[w].pc \in {"send", "done"} => wk[w].rec.mngName \in DOMAIN Nodes

(***************************************************************************)
(* Properties of DownloadClusterLogs.                                      *)
(***************************************************************************)
\* the number of paths in all file lists of a Logs value
PathCount(logs) ==
    SumOver(FileLists(logs), [p \in FileLists(logs) |-> Len(logs[p[1]][p[2]])])

\* the paths in all file lists of a Logs value
PathSet(logs) == UNION {SeqToSet(logs[p[1]][p[2]]) : p \in FileLists(logs)}

\* C26: DownloadClusterLogs copies nothing when FetchLogs returns an error.
\* Otherwise it copies, with the read lock held, every path of every file list of
\* Logs to its base name in the artifact directory; a copy that fails ends the call
\* with that error and nothing more is copied; the configuration file is copied
\* only once every log file has been copied.
C26_CopiesUnderReadLock ==
    /\ [][/\ other'.copied # other.copied
             => /\ logsMu = "rheld" /\ logsMu' = "rheld"
                /\ orch.pc = "returned" /\ orch.ret = Nil
                /\ Logs = other.seen
                /\ \E g \in DOMAIN Logs : \E i \in DOMAIN Logs[g] :
                      \E k \in 1..Len(Logs[g][i]) :
                         other'.copied
                            = Append(other.copied, <<Logs[g][i][k], NewPath(Logs[g][i][k])>>)
          /\ (~other.config /\ other'.config)
             => /\ logsMu = "rheld"
                /\ Len(other.copied) = PathCount(Logs)
                /\ other'.copied = other.copied
          /\ other.pc = "returned" => other' = other]_vars
    /\ [](/\ (orch.pc = "returned" /\ orch.ret # Nil)
             => (other.copied = << >> /\ ~other.config /\ other.pc \in {"fetch", "returned"})
          /\ (other.pc = "returned" /\ orch.ret # Nil) => other.ret = orch.ret
          /\ other.ret = "copy error"
             => /\ other.pc = "returned" /\ ~other.config
                /\ Len(other.copied) < PathCount(Logs)
          /\ other.config
             => /\ other.ret = Nil /\ other.pc = "returned"
                /\ Len(other.copied) = PathCount(Logs)
                /\ {c[1] : c \in SeqToSet(other.copied)} = PathSet(Logs)
                /\ \A c \in SeqToSet(other.copied) : c[2] = <<"artifact", c[1][2], c[1][3]>>
          /\ (other.pc = "returned" /\ other.ret = Nil) => other.config
          /\ other.pc = "returned" => logsMu # "rheld")

\* the call has returned nil after it copied the files of two file lists, those
\* of this run and those of an earlier one, and then the configuration file
C26_Witness ==
    /\ other.pc = "returned"
    /\ other.ret = Nil
    /\ other.config
    /\ Cardinality(FileLists(Logs)) = 2
    /\ \E c \in SeqToSet(other.copied) : c[1][1] = RunDir
    /\ \E c \in SeqToSet(other.copied) : c[1][1] = EarlierDir

(***************************************************************************)
(* Properties of the S3 bucket functions.                                  *)
(***************************************************************************)
\* the number of calls of an S3 API operation made so far
CallCount(op) == Cardinality({k \in 1..Len(s3.calls) : s3.calls[k] = op})

\* C27: CreateBucket makes at most 5 attempts.  An attempt whose CreateBucket call
\* reports that the bucket exists or is owned already succeeds without a tagging or
\* lifecycle call; CreateBucket returns nil as soon as an attempt succeeds, returns
\* at once the error of an attempt that is not to be retried, makes another
\* attempt only after one that is to be retried, and returns the last error after
\* 5 such attempts.
C27_AtMostFiveAttempts ==
    /\ [][s3.fn = "CreateBucket"
          => /\ (s3.pc = "attempted" /\ s3.err = Nil)
                => (s3'.pc = "returned" /\ s3'.ret = Nil /\ s3'.calls = s3.calls)
             /\ (s3.pc = "attempted" /\ s3.err # Nil /\ ~s3.retry)
                => (s3'.pc = "returned" /\ s3'.ret = s3.err /\ s3'.calls = s3.calls)
             /\ CallCount("CreateBucket")' > CallCount("CreateBucket")
                => \/ s3.i = 0 /\ s3.calls = << >>
                   \/ s3.i = CallCount("CreateBucket") /\ s3.retry /\ s3.err # Nil
             /\ s3.pc = "returned" => s3' = s3]_vars
    /\ [](s3.fn = "CreateBucket"
          => /\ CallCount("CreateBucket") <= 5
             /\ s3.i <= 5
             /\ s3.pc = "attempted"
                => /\ s3.err = Nil <=> (s3.api = Nil \/ AlreadyExist(s3.api))
                   /\ AlreadyExist(s3.api) => Last(s3.calls) = "CreateBucket"
                   /\ s3.err # Nil => s3.err = s3.api
                   /\ s3.retry
                      <=> /\ s3.err # Nil
                          /\ \/ Last(s3.calls) # "CreateBucket"
                             \/ s3.api = "OperationAborted"
             /\ s3.pc = "returned"
                => \/ /\ s3.ret = Nil /\ s3.err = Nil /\ s3.i < 5
                      /\ CallCount("CreateBucket") = s3.i + 1
                   \/ /\ s3.ret # Nil /\ s3.ret = s3.err /\ ~s3.retry /\ s3.i < 5
                      /\ CallCount("CreateBucket") = s3.i + 1
                   \/ /\ s3.ret # Nil /\ s3.ret = s3.err /\ s3.retry /\ s3.i = 5
                      /\ CallCount("CreateBucket") = 5)

\* CreateBucket has returned the error of its fifth attempt, after five attempts
\* that were to be retried
C27_Witness ==
    /\ s3.fn = "CreateBucket"
    /\ s3.pc = "returned"
    /\ s3.i = 5
    /\ s3.ret # Nil
    /\ CallCount("CreateBucket") = 5
    /\ CallCount("PutBucketLifecycle") >= 1

\* C28: EmptyBucket and DeleteBucket return nil when their API call succeeds or
\* fails with NoSuchBucket, and the error of the API call when it fails otherwise.
C28_OtherErrorsAreReturned ==
    (s3.fn \in {"EmptyBucket", "DeleteBucket"} /\ s3.pc = "returned")
    => /\ s3.api \in {Nil, "NoSuchBucket"} => s3.ret = Nil
       /\ s3.api \notin {Nil, "NoSuchBucket"} => s3.ret = s3.api

\* a deletion was issued: the DeleteBucket API call is among the calls made
DeletionIssued == CallCount("DeleteBucket") >= 1

\* C29: deleteS3 issues the deletion of the bucket only when S3BucketCreate is set
\* and S3BucketCreateKeep is not, and only after EmptyBucket has returned nil; in
\* every other case it makes no deletion call; when all three hold it makes it.
C29_DeletesOnlyOwnBucket ==
    s3.fn = "deleteS3"
    => /\ DeletionIssued
          => /\ s3.create /\ ~s3.keep
             /\ s3.emptied = Nil
             /\ s3.calls = <<"DeleteObjects", "DeleteBucket">>
       /\ (~s3.create \/ s3.keep)
          => /\ s3.calls = << >>
             /\ s3.pc = "returned" => s3.ret = Nil
       /\ (s3.emptied \notin {"", Nil})
          => /\ s3.pc = "returned" /\ s3.ret = s3.emptied
             /\ ~DeletionIssued
       /\ (s3.pc = "returned" /\ s3.create /\ ~s3.keep /\ s3.emptied = Nil)
          => DeletionIssued

\* deleteS3 has issued the deletion of the bucket it had created, after EmptyBucket
\* returned nil
C29_Witness ==
    /\ s3.fn = "deleteS3"
    /\ s3.pc = "returned"
    /\ s3.create /\ ~s3.keep
    /\ s3.calls = <<"DeleteObjects", "DeleteBucket">>
    /\ s3.emptied = Nil

=============================================================================
